---- MODULE Spec2Model ----
(***************************************************************************)
(* A model of altair_parser/jsonschema.py: the JSONSchema wrapper, its     *)
(* class-level reference cache, get_reference, trait_code, imports and     *)
(* module_spec.                                                            *)
(*                                                                         *)
(* Representation of Python values.                                        *)
(*  - A str is a sequence of chunks.  A chunk is a run of characters the   *)
(*    program never looks inside; "/" is always a chunk of its own and so  *)
(*    is the suffix ".py".  str.split('/') and str.lower() are computed on *)
(*    that sequence.                                                       *)
(*  - A JSON value is a record [t, s, l, kv]: t is its Python type, s the  *)
(*    chunks of a str, l the elements of a list, kv the (key, value) pairs *)
(*    of a dict in insertion order.                                        *)
(*  - A reference to a raw value (identity matters: `context is schema`)   *)
(*    is a pointer [doc, path, fid, fresh]: a subtree of loaded document   *)
(*    doc at path, or (doc = 0) the dict literal built for instance fid.   *)
(*  - A JSONSchema instance is a record of the heap; its identity is its   *)
(*    index in the heap.                                                   *)
(***************************************************************************)
EXTENDS Integers, Sequences, FiniteSets, TLC

VARIABLES heap, cache, held, last, steps

vars == <<heap, cache, held, last, steps>>

\* Number of calls the client makes in one process.
MaxSteps == 2
\* Depth of nested trait_code evaluations before the interpreter's recursion
\* limit ends the call with RecursionError.
MaxDepth == 6

----------------------------------------------------------------------------
\* Python str and JSON values

S(c) == <<c>>

JNull == [t |-> "null", s |-> <<>>, l |-> <<>>, kv |-> <<>>]
JStr(s) == [t |-> "str", s |-> s, l |-> <<>>, kv |-> <<>>]
JList(l) == [t |-> "list", s |-> <<>>, l |-> l, kv |-> <<>>]
JObj(kv) == [t |-> "obj", s |-> <<>>, l |-> <<>>, kv |-> kv]

\* bool(v) of a JSON value
Truthy(v) ==
    CASE v.t = "str" -> v.s # <<>>
      [] v.t = "list" -> v.l # <<>>
      [] v.t = "obj" -> v.kv # <<>>
      [] OTHER -> FALSE

\* key in d, d[key] for a dict d
HasKey(d, k) == \E i \in 1..Len(d.kv) : d.kv[i][1] = k
Get(d, k) == d.kv[CHOOSE i \in 1..Len(d.kv) : d.kv[i][1] = k][2]

\* sub in s for two str: s holds the chunks of sub contiguously
SubStr(sub, s) ==
    \E i \in 0..(Len(s) - Len(sub)) :
        \A j \in 1..Len(sub) : s[i + j] = sub[j]

\* str.lower() of one chunk, for the chunks the documents use
LowerChunk(c) ==
    CASE c = "A" -> "a"
      [] c = "B" -> "b"
      [] c = "Obj" -> "obj"
      [] c = "Alias" -> "alias"
      [] c = "Node" -> "node"
      [] c = "Loop" -> "loop"
      [] c = "T1" -> "t1"
      [] c = "T2" -> "t2"
      [] c = "T3" -> "t3"
      [] c = "RootInstance" -> "rootinstance"
      [] OTHER -> c

Lower(s) == [i \in 1..Len(s) |-> LowerChunk(s[i])]

\* s.split('/'): the segments between the "/" chunks, at least one
RECURSIVE SplitFrom(_, _)
SplitFrom(s, seg) ==
    IF s = <<>> THEN <<seg>>
    ELSE IF Head(s) = "/" THEN <<seg>> \o SplitFrom(Tail(s), <<>>)
    ELSE SplitFrom(Tail(s), Append(seg, Head(s)))

Split(s) == SplitFrom(s, <<>>)

----------------------------------------------------------------------------
\* Errors and results

Err(kind, what, arg) == [kind |-> kind, what |-> what, arg |-> arg]
NoErr == Err("", "", JNull)

NoName == [some |-> FALSE, v |-> <<>>]
Name(s) == [some |-> TRUE, v |-> s]

----------------------------------------------------------------------------
\* The schema documents a client may load (the `schema` argument of the root
\* JSONSchema) and the ref strings it may ask get_reference for.

Ref(name) == JStr(<<"#", "/", "definitions", "/", name>>)
Prim(typ) == JObj(<< <<S("type"), JStr(S(typ))>> >>)
TypeList(typs) ==
    JObj(<< <<S("type"), JList([i \in 1..Len(typs) |-> JStr(S(typs[i]))])>> >>)
RefNode(name) == JObj(<< <<S("$ref"), Ref(name)>> >>)
ArrayOf(items) == JObj(<< <<S("type"), JStr(S("array"))>>, <<S("items"), items>> >>)
ObjNode(props) ==
    JObj(<< <<S("type"), JStr(S("object"))>>, <<S("properties"), JObj(props)>> >>)
RootDoc(defs, props) ==
    JObj(<< <<S("definitions"), JObj(defs)>>, <<S("properties"), JObj(props)>> >>)
\* d with one more key
With(d, k, v) == JObj(Append(d.kv, <<k, v>>))

\* an object definition A, a string definition B, references to both, a union
\* and an enumeration
DocBasic ==
    RootDoc(<< <<S("A"), ObjNode(<<>>)>>, <<S("B"), Prim("string")>> >>,
            << <<S("a"), RefNode("A")>>,
               <<S("b"), RefNode("B")>>,
               <<S("u"), TypeList(<<"string", "null">>)>>,
               <<S("e"), With(Prim("string"), S("enum"),
                              JList(<<JStr(S("x")), JStr(S("y"))>>))>> >>)

\* the same ref strings as DocBasic with other targets: A an integer, B an object
DocOther ==
    RootDoc(<< <<S("A"), Prim("integer")>>,
               <<S("B"), ObjNode(<< <<S("n"), Prim("number")>> >>)>> >>,
            << <<S("p"), RefNode("A")>>, <<S("b"), RefNode("B")>> >>)

\* an object definition that references itself, directly and as array items
DocSelfRef ==
    RootDoc(<< <<S("Node"),
                 ObjNode(<< <<S("next"), RefNode("Node")>>,
                            <<S("kids"), ArrayOf(RefNode("Node"))>> >>)>> >>,
            << <<S("head"), RefNode("Node")>> >>)

\* composite keywords on the root, on both definitions and, beside "$ref", on
\* a property
DocKeywordsPass ==
    With(RootDoc(<< <<S("A"), With(ObjNode(<<>>), S("allOf"), JList(<<>>))>>,
                    <<S("B"), With(Prim("string"), S("anyOf"), JList(<<>>))>> >>,
                 << <<S("p"), With(RefNode("A"), S("anyOf"), JList(<<>>))>> >>),
         S("oneOf"), JList(<<>>))

\* "anyOf" alone on a property of an object definition
DocAnyOf ==
    RootDoc(<< <<S("A"),
                 ObjNode(<< <<S("p"), JObj(<< <<S("anyOf"), JList(<<>>)>> >>)>> >>)>> >>,
            << <<S("r"), RefNode("A")>> >>)

\* "not" beside "$ref" on a property of the root
DocNot ==
    RootDoc(<< <<S("A"), ObjNode(<<>>)>> >>,
            << <<S("n"), With(RefNode("A"), S("not"), JObj(<<>>))>> >>)

\* two object definitions whose names differ only in case
DocCase ==
    RootDoc(<< <<S("A"), ObjNode(<<>>)>>,
               <<S("a"), ObjNode(<< <<S("x"), Prim("integer")>> >>)>> >>,
            << <<S("p"), RefNode("A")>> >>)

\* an object reached through a reference to a reference, and as array items
DocAlias ==
    RootDoc(<< <<S("Obj"), ObjNode(<<>>)>>, <<S("Alias"), RefNode("Obj")>> >>,
            << <<S("p"), RefNode("Alias")>>,
               <<S("q"), ArrayOf(RefNode("Obj"))>> >>)

\* type lists that hold "object", "array" and an unknown name; an unknown type
DocTypes ==
    RootDoc(<< <<S("T1"), TypeList(<<"string", "object">>)>>,
               <<S("T2"), TypeList(<<"integer", "array">>)>>,
               <<S("T3"), TypeList(<<"boolean", "foo">>)>>,
               <<S("B"), Prim("foo")>> >>,
            << <<S("u"), TypeList(<<"boolean", "number", "integer">>)>> >>)

\* a reference cycle that passes through no object
DocLoop ==
    RootDoc(<< <<S("Loop"), RefNode("Loop")>> >>,
            << <<S("p"), RefNode("Loop")>> >>)

\* an object definition whose name is the empty string
DocEmptyName ==
    RootDoc(<< <<<<>>, ObjNode(<<>>)>> >>,
            << <<S("p"), JObj(<< <<S("$ref"), JStr(<<"#", "/", "definitions", "/">>)>> >>)>> >>)

\* two object definitions that reference each other
DocMutual ==
    RootDoc(<< <<S("A"), ObjNode(<< <<S("b"), RefNode("B")>> >>)>>,
               <<S("B"), ObjNode(<< <<S("a"), ArrayOf(RefNode("A"))>> >>)>> >>,
            << <<S("p"), RefNode("A")>> >>)

Documents ==
    <<DocBasic, DocOther, DocSelfRef, DocKeywordsPass, DocAnyOf, DocNot,
      DocCase, DocAlias, DocTypes, DocLoop, DocEmptyName, DocMutual>>

DocIds == 1..Len(Documents)

RefInputs ==
    { Ref(name).s : name \in {"A", "B", "Node", "Alias", "T1", "T2", "T3",
                              "Loop", "Missing"} }
    \cup { <<"#">>,
           <<"#", "/", "properties", "/", "p">>,
           <<"#", "/", "properties", "/", "u">>,
           <<"#", "/", "definitions", "/">>,
           <<"definitions", "/", "A">>,
           <<"#", "/", "definitions", "/", "B", "/", "type", "/", "x">> }

----------------------------------------------------------------------------
\* Raw values by reference, and JSONSchema instances

Ptr(d, path) == [doc |-> d, path |-> path, fid |-> 0, fresh |-> JNull]
Fresh(fid, v) == [doc |-> 0, path |-> <<>>, fid |-> fid, fresh |-> v]

RECURSIVE WalkVal(_, _)
WalkVal(v, path) ==
    IF path = <<>> THEN v ELSE WalkVal(Get(v, Head(path)), Tail(path))

\* the value a pointer refers to
Val(p) == WalkVal(IF p.doc = 0 THEN p.fresh ELSE Documents[p.doc], p.path)

\* the pointer to p[key]
Sub(p, key) == [p EXCEPT !.path = Append(@, key)]

\* JSONSchema.__init__: context is None for a root (parent = 0 is None)
NewInstance(schema, context, parent, name) ==
    [schema |-> schema,
     context |-> IF context.some /\ Truthy(Val(context.v)) THEN context.v ELSE schema,
     parent |-> parent,
     name |-> name]

NodeOk(st, id) == [st |-> st, ok |-> TRUE, err |-> NoErr, ret |-> id]
NodeFail(st, err) == [st |-> st, ok |-> FALSE, err |-> err, ret |-> 0]

\* make_child: a new instance with this instance's context, parent = self
MakeChild(st, n, schema, name) ==
    NodeOk([st EXCEPT !.heap = Append(@, NewInstance(schema,
                                                     [some |-> TRUE, v |-> st.heap[n].context],
                                                     n, name))],
           Len(st.heap) + 1)

BoolOk(b) == [ok |-> TRUE, err |-> NoErr, val |-> b]
BoolFail(err) == [ok |-> FALSE, err |-> err, val |-> FALSE]
ValOk(v) == [ok |-> TRUE, err |-> NoErr, val |-> v]
ValFail(err) == [ok |-> FALSE, err |-> err, val |-> JNull]
StrOk(s) == [ok |-> TRUE, err |-> NoErr, str |-> s]
StrFail(err) == [ok |-> FALSE, err |-> err, str |-> <<>>]

AttrDefault(attr) ==
    CASE attr \in {"title", "description"} -> JStr(<<>>)
      [] attr \in {"properties", "definitions", "examples"} -> JObj(<<>>)
      [] attr = "type" -> JStr(S("object"))
      [] OTHER -> JNull

\* __getattr__ for the names of attr_defaults: self.schema.get(attr, default)
GetAttr(schema, attr) ==
    IF schema.t # "obj"
    THEN ValFail(Err("AttributeError", "schema has no attribute 'get'", schema))
    ELSE IF HasKey(schema, S(attr)) THEN ValOk(Get(schema, S(attr)))
    ELSE ValOk(AttrDefault(attr))

Attr(node, attr) == GetAttr(Val(node.schema), attr)

IsRoot(node) == node.context = node.schema

\* '$ref' in schema, for the kinds of value a schema can be
HasRef(schema) ==
    CASE schema.t = "obj" -> BoolOk(HasKey(schema, S("$ref")))
      [] schema.t = "list" ->
             BoolOk(\E i \in 1..Len(schema.l) : schema.l[i] = JStr(S("$ref")))
      [] schema.t = "str" -> BoolOk(SubStr(S("$ref"), schema.s))
      [] OTHER -> BoolFail(Err("TypeError", "argument is not iterable", schema))

IsReference(node) == HasRef(Val(node.schema))

\* self.type == 'object' and not self.is_reference
TypeIsObject(ty, isref) ==
    IF ~ty.ok THEN BoolFail(ty.err)
    ELSE IF ty.val # JStr(S("object")) THEN BoolOk(FALSE)
    ELSE IF isref.ok THEN BoolOk(~isref.val)
    ELSE isref

IsObject(node) == TypeIsObject(Attr(node, "type"), IsReference(node))

LastOf(path) == path[Len(path)]

\* self.schema['$ref'].split('/')[-1]
RefClassname(ref) ==
    IF ref.t # "str"
    THEN StrFail(Err("AttributeError", "ref has no attribute 'split'", ref))
    ELSE StrOk(LastOf(Split(ref.s)))

ClassnameOf(node, isref) ==
    IF node.name.some /\ node.name.v # <<>> THEN StrOk(node.name.v)
    ELSE IF IsRoot(node) THEN StrOk(S("RootInstance"))
    ELSE IF ~isref.ok THEN StrFail(isref.err)
    ELSE IF isref.val THEN RefClassname(Get(Val(node.schema), S("$ref")))
    ELSE StrFail(Err("NotImplementedError", "Anonymous class name", JNull))

Classname(node) == ClassnameOf(node, IsReference(node))

Modulename(classname) == Lower(classname)
Filename(classname) == Modulename(classname) \o S(".py")
BaseClass == S("BaseObject")
ImportStatementOf(classname) ==
    S("from .") \o Modulename(classname) \o S(" import ") \o classname

BasicImports ==
    <<S("import traitlets as T"),
      S("from . import jstraitlets as jst"),
      S("from .baseobject import BaseObject")>>

----------------------------------------------------------------------------
\* get_reference

\* schema = self.context; for key in path[1:]: schema = schema[key]
RECURSIVE WalkKeys(_, _)
\* schema = schema[key] for the first of keys, v being the value at p
WalkStep(p, v, keys) ==
    IF v.t # "obj"
    THEN [ok |-> FALSE, ptr |-> p,
          err |-> Err("TypeError", "indices must be integers", JStr(Head(keys)))]
    ELSE IF ~HasKey(v, Head(keys))
    THEN [ok |-> FALSE, ptr |-> p, err |-> Err("KeyError", "", JStr(Head(keys)))]
    ELSE WalkKeys(Sub(p, Head(keys)), Tail(keys))

WalkKeys(p, keys) ==
    IF keys = <<>> THEN [ok |-> TRUE, err |-> NoErr, ptr |-> p]
    ELSE WalkStep(p, Val(p), keys)

\* cache and ref in self._cached_references
CacheHitNever(c, refv, usecache) == FALSE
CacheHit(c, refv, usecache) ==
    usecache /\ refv.t = "str" /\ refv.s \in DOMAIN c

\* if cache: self._cached_references[ref] = wrapped_schema
StoreRef(c, ref, id, usecache) ==
    IF usecache THEN [r \in DOMAIN c \cup {ref} |-> IF r = ref THEN id ELSE c[r]]
    ELSE c

\* the instance m made for the target is stored and returned
WrapTarget(m, refv, usecache) ==
    NodeOk([m.st EXCEPT !.cache = StoreRef(@, refv.s, m.ret, usecache)], m.ret)

\* the outcome w of the walk: a KeyError becomes the ValueError of an absent ref
Walked(st, n, refv, usecache, w, name) ==
    IF ~w.ok
    THEN IF w.err.kind = "KeyError"
         THEN NodeFail(st, Err("ValueError", "$ref not present in the schema", refv))
         ELSE NodeFail(st, w.err)
    ELSE WrapTarget(MakeChild(st, n, w.ptr, Name(name)), refv, usecache)

\* path = ref.split('/'); name = path[-1]
ResolvePath(st, n, refv, usecache, path) ==
    IF path[1] # S("#")
    THEN NodeFail(st, Err("ValueError", "Unrecognized $ref format", refv))
    ELSE Walked(st, n, refv, usecache,
                WalkKeys(st.heap[n].context, Tail(path)), LastOf(path))

GetReference(st, n, refv, usecache) ==
    IF usecache /\ refv.t \in {"list", "obj"}
    THEN NodeFail(st, Err("TypeError", "unhashable type", refv))
    ELSE IF CacheHit(st.cache, refv, usecache) THEN NodeOk(st, st.cache[refv.s])
    ELSE IF refv.t # "str"
    THEN NodeFail(st, Err("AttributeError", "ref has no attribute 'split'", refv))
    ELSE ResolvePath(st, n, refv, usecache, Split(refv.s))

----------------------------------------------------------------------------
\* trait_code

\* The text trait_code returns, as the tree of calls it spells.
CodeCall(fn, args) == [kind |-> "call", fn |-> fn, args |-> args, lit |-> JNull]
CodeVar(s) == [kind |-> "var", fn |-> s, args |-> <<>>, lit |-> JNull]
CodeLit(v) == [kind |-> "lit", fn |-> <<>>, args |-> <<>>, lit |-> v]
CodeList(args) == [kind |-> "list", fn |-> <<>>, args |-> args, lit |-> JNull]
NoCode == [kind |-> "none", fn |-> <<>>, args |-> <<>>, lit |-> JNull]

\* utils.construct_function_call(name, *args): the call name(args...); an
\* argument wrapped in utils.Variable is spelled as it is, any other by its repr
ConstructFunctionCall(name, args) == CodeCall(name, args)
Variable(code) == code

CodeOk(st, code) == [st |-> st, ok |-> TRUE, err |-> NoErr, code |-> code]
CodeFail(st, err) == [st |-> st, ok |-> FALSE, err |-> err, code |-> NoCode]

SimpleTypes == {"boolean", "null", "number", "integer", "string"}

\* typecode in self.simple_types
IsSimpleType(typecode) ==
    typecode.t = "str" /\ Len(typecode.s) = 1 /\ typecode.s[1] \in SimpleTypes

\* self.traitlet_map[typecode]['cls']
TraitletCls(typ) ==
    CASE typ = "array" -> S("jst.JSONArray")
      [] typ = "boolean" -> S("jst.JSONBoolean")
      [] typ = "null" -> S("jst.JSONNull")
      [] typ = "number" -> S("jst.JSONNumber")
      [] typ = "integer" -> S("jst.JSONInteger")
      [] typ = "string" -> S("jst.JSONString")

\* the keyword is passed over instead of refused
NotImplementedIgnored(st, what) == CodeOk(st, NoCode)
NotImplemented(st, what) == CodeFail(st, Err("NotImplementedError", what, JNull))

\* construct_function_call('jst.JSONInstance', self.classname)
JSONInstanceNamed(st, cn) ==
    IF ~cn.ok THEN CodeFail(st, cn.err)
    ELSE CodeOk(st, ConstructFunctionCall(S("jst.JSONInstance"), <<CodeLit(JStr(cn.str))>>))

JSONInstanceOf(st, n) == JSONInstanceNamed(st, Classname(st.heap[n]))

\* f'T.Instance({ref.classname})'
InstanceNamed(st, cn) ==
    IF ~cn.ok THEN CodeFail(st, cn.err)
    ELSE CodeOk(st, CodeCall(S("T.Instance"), <<CodeVar(cn.str)>>))

\* the reference spelled as the target's own trait_code would spell it
InstanceOfAsTrait(st, ref) == JSONInstanceOf(st, ref)
InstanceOf(st, ref) == InstanceNamed(st, Classname(st.heap[ref]))

\* self.make_child(items): the instance whose trait_code is the item type
ItemsChildSelf(st, n) == NodeOk(st, n)
ItemsChild(st, n) ==
    MakeChild(st, n, Sub(st.heap[n].schema, S("items")), NoName)

\* the child is given the whole type list instead of the entry
MemberChildWhole(st, n, typ) ==
    MakeChild(st, n,
              Fresh(Len(st.heap) + 1,
                    JObj(<< <<S("type"), Attr(st.heap[n], "type").val>> >>)),
              NoName)
\* self.make_child({'type': typ}) for one entry of a type list
MemberChild(st, n, typ) ==
    MakeChild(st, n,
              Fresh(Len(st.heap) + 1, JObj(<< <<S("type"), typ>> >>)),
              NoName)

RECURSIVE TraitCode(_, _, _)
RECURSIVE UnionMembers(_, _, _, _, _)

\* construct_function_call(cls, Variable(itemtype)) around the code r
WrapCode(cls, r) ==
    IF ~r.ok THEN r
    ELSE CodeOk(r.st, ConstructFunctionCall(S(cls), <<Variable(r.code)>>))

\* the trait_code of the child c that make_child returned
ChildCode(c, depth) == TraitCode(c.st, c.ret, depth + 1)

\* one entry's code r joins the list and the loop goes on
UnionAppend(r, n, typs, depth, done) ==
    IF ~r.ok THEN r
    ELSE UnionMembers(r.st, n, Tail(typs), depth, Append(done, r.code))

\* the trait_code of each entry of a type list, in order
UnionMembers(st, n, typs, depth, done) ==
    IF typs = <<>> THEN CodeOk(st, CodeList(done))
    ELSE UnionAppend(ChildCode(MemberChild(st, n, Head(typs)), depth),
                     n, typs, depth, done)

\* if ref.is_object: T.Instance(classname) else: ref.trait_code
RefTargetCode(ref, io, depth) ==
    IF ~io.ok THEN CodeFail(ref.st, io.err)
    ELSE IF io.val THEN InstanceOf(ref.st, ref.ret)
    ELSE TraitCode(ref.st, ref.ret, depth + 1)

\* ref = self.get_reference(self.schema['$ref'])
RefCode(ref, depth) ==
    IF ~ref.ok THEN CodeFail(ref.st, ref.err)
    ELSE RefTargetCode(ref, IsObject(ref.st.heap[ref.ret]), depth)

\* the chain of tests of trait_code, typecode being self.type
Dispatch(st, n, depth, typecode, schema) ==
    IF HasKey(schema, S("not")) THEN NotImplemented(st, "'not' keyword")
    ELSE IF HasKey(schema, S("$ref"))
    THEN RefCode(GetReference(st, n, Get(schema, S("$ref")), TRUE), depth)
    ELSE IF HasKey(schema, S("anyOf")) THEN NotImplemented(st, "'anyOf' keyword")
    ELSE IF HasKey(schema, S("allOf")) THEN NotImplemented(st, "'allOf' keyword")
    ELSE IF HasKey(schema, S("oneOf")) THEN NotImplemented(st, "'oneOf' keyword")
    ELSE IF HasKey(schema, S("enum"))
    THEN CodeOk(st, ConstructFunctionCall(S("jst.JSONEnum"),
                                          <<CodeLit(Get(schema, S("enum")))>>))
    ELSE IF IsSimpleType(typecode)
    THEN CodeOk(st, ConstructFunctionCall(TraitletCls(typecode.s[1]), <<>>))
    ELSE IF typecode = JStr(S("array"))
    THEN IF ~HasKey(schema, S("items"))
         THEN CodeFail(st, Err("KeyError", "", JStr(S("items"))))
         ELSE IF Get(schema, S("items")).t = "list"
         THEN NotImplemented(st, "'items' keyword as list")
         ELSE WrapCode("jst.JSONArray", ChildCode(ItemsChild(st, n), depth))
    ELSE IF typecode = JStr(S("object")) THEN JSONInstanceOf(st, n)
    ELSE IF typecode.t = "list"
    THEN WrapCode("jst.JSONUnion", UnionMembers(st, n, typecode.l, depth, <<>>))
    ELSE CodeFail(st, Err("ValueError", "unrecognized type identifier", typecode))

\* typecode = self.type, which fails on a schema that is no mapping
TypedCode(st, n, depth, ty) ==
    IF ~ty.ok THEN CodeFail(st, ty.err)
    ELSE Dispatch(st, n, depth, ty.val, Val(st.heap[n].schema))

TraitCode(st, n, depth) ==
    IF depth > MaxDepth
    THEN CodeFail(st, Err("RecursionError", "maximum recursion depth exceeded", JNull))
    ELSE TypedCode(st, n, depth, Attr(st.heap[n], "type"))

----------------------------------------------------------------------------
\* wrapped_properties, wrapped_definitions, imports, object_code, module_spec

ListOk(st, items) == [st |-> st, ok |-> TRUE, err |-> NoErr, items |-> items]
ListFail(st, err) == [st |-> st, ok |-> FALSE, err |-> err, items |-> <<>>]

\* d[key] = value on an insertion-ordered dict of [key, val] entries
DictSet(d, key, val) ==
    IF \E i \in 1..Len(d) : d[i].key = key
    THEN [i \in 1..Len(d) |-> IF d[i].key = key THEN [key |-> key, val |-> val] ELSE d[i]]
    ELSE Append(d, [key |-> key, val |-> val])

\* one make_child per entry of the dict at self.<attr>, in order; lower is
\* whether the key is lower-cased and named tells whether the child is named
RECURSIVE WrapEntries(_, _, _, _, _, _, _)
WrapEntry(c, n, attr, kv, lower, named, acc, name) ==
    WrapEntries(c.st, n, attr, Tail(kv), lower, named,
                DictSet(acc, IF lower THEN Lower(name) ELSE name, c.ret))

WrapEntries(st, n, attr, kv, lower, named, acc) ==
    IF kv = <<>> THEN ListOk(st, acc)
    ELSE WrapEntry(MakeChild(st, n, Sub(Sub(st.heap[n].schema, S(attr)), Head(kv)[1]),
                             IF named THEN Name(Head(kv)[1]) ELSE NoName),
                   n, attr, kv, lower, named, acc, Head(kv)[1])

\* self.<attr>.items(), a being the value of the attribute
WrapItems(st, n, attr, lower, named, a) ==
    IF ~a.ok THEN ListFail(st, a.err)
    ELSE IF a.val.t # "obj"
    THEN ListFail(st, Err("AttributeError", "no attribute 'items'", a.val))
    ELSE WrapEntries(st, n, attr, a.val.kv, lower, named, <<>>)

\* the children of a defaulted dict attribute that the schema does not hold
\* wrap the entries of the default, which is empty
WrappedAttr(st, n, attr, lower, named) ==
    WrapItems(st, n, attr, lower, named, Attr(st.heap[n], attr))

WrappedDefinitions(st, n) == WrappedAttr(st, n, "definitions", TRUE, TRUE)
WrappedProperties(st, n) == WrappedAttr(st, n, "properties", FALSE, FALSE)

\* the loop of imports over the wrapped properties
RECURSIVE ImportsLoop(_, _, _, _)

\* if ref.is_object: imports.append(ref.import_statement)
ImportTarget(ref, n, props, acc, io, cn) ==
    IF ~io.ok THEN ListFail(ref.st, io.err)
    ELSE IF ~io.val THEN ImportsLoop(ref.st, n, Tail(props), acc)
    ELSE IF ~cn.ok THEN ListFail(ref.st, cn.err)
    ELSE ImportsLoop(ref.st, n, Tail(props), Append(acc, ImportStatementOf(cn.str)))

\* ref = self.get_reference(obj.schema['$ref'])
ImportRef(ref, n, props, acc) ==
    IF ~ref.ok THEN ListFail(ref.st, ref.err)
    ELSE ImportTarget(ref, n, props, acc,
                      IsObject(ref.st.heap[ref.ret]), Classname(ref.st.heap[ref.ret]))

\* if obj.is_reference
ImportProperty(st, n, props, acc, obj, isref) ==
    IF ~isref.ok THEN ListFail(st, isref.err)
    ELSE IF ~isref.val THEN ImportsLoop(st, n, Tail(props), acc)
    ELSE ImportRef(GetReference(st, n, Get(Val(obj.schema), S("$ref")), TRUE),
                   n, props, acc)

ImportsLoop(st, n, props, acc) ==
    IF props = <<>> THEN ListOk(st, acc)
    ELSE ImportProperty(st, n, props, acc, st.heap[Head(props).val],
                        IsReference(st.heap[Head(props).val]))

\* for obj in self.wrapped_properties().values()
ImportsOver(wp, n) ==
    IF ~wp.ok THEN wp ELSE ImportsLoop(wp.st, n, wp.items, BasicImports)

Imports(st, n) == ImportsOver(WrappedProperties(st, n), n)

\* The template reads an attribute through jinja2's getattr, which turns an
\* AttributeError into an undefined value (rendered empty) and lets every
\* other exception out.
Swallowed(r) == ~r.ok /\ r.err.kind = "AttributeError"

\* {% for (name, prop) in cls.wrapped_properties().items() %}
\*     {{ name }} = {{ prop.trait_code }}
RECURSIVE FieldsLoop(_, _, _)

Field(r, props, acc) ==
    IF ~r.ok /\ ~Swallowed(r) THEN ListFail(r.st, r.err)
    ELSE FieldsLoop(r.st, Tail(props),
                    Append(acc, [name |-> Head(props).key, code |-> r.code]))

FieldsLoop(st, props, acc) ==
    IF props = <<>> THEN ListOk(st, acc)
    ELSE Field(TraitCode(st, Head(props).val, 1), props, acc)

Artifact(kind, imports, classname, fields) ==
    [kind |-> kind, imports |-> imports, classname |-> classname,
     baseclass |-> IF kind = "class" THEN BaseClass ELSE <<>>, fields |-> fields]
NoArtifact == Artifact("none", <<>>, <<>>, <<>>)

ArtOk(st, art) == [st |-> st, ok |-> TRUE, err |-> NoErr, art |-> art]
ArtFail(st, err) == [st |-> st, ok |-> FALSE, err |-> err, art |-> NoArtifact]

\* the rendered class, fs being the fields of the template's loop
RenderClass(im, cn, fs) ==
    IF ~fs.ok THEN ArtFail(fs.st, fs.err)
    ELSE ArtOk(fs.st, Artifact("class", im.items, cn.str, fs.items))

\* cls.wrapped_properties().items()
RenderFields(im, cn, wp) ==
    IF ~wp.ok THEN ArtFail(wp.st, wp.err)
    ELSE RenderClass(im, cn, FieldsLoop(wp.st, wp.items, <<>>))

\* class {{ cls.classname }}({{ cls.baseclass }})
RenderHeader(n, im, cn) ==
    IF ~cn.ok /\ ~Swallowed(cn) THEN ArtFail(im.st, cn.err)
    ELSE RenderFields(im, cn, WrappedProperties(im.st, n))

\* {% for import in cls.imports %}
RenderImports(n, im) ==
    IF ~im.ok /\ ~Swallowed(im) THEN ArtFail(im.st, im.err)
    ELSE RenderHeader(n, im, Classname(im.st.heap[n]))

\* object_code: OBJECT_TEMPLATE rendered with cls = self
ObjectCode(st, n) == RenderImports(n, Imports(st, n))

\* the text of a file shipped beside jsonschema.py
SupportFile(name) == Artifact("file", <<>>, name, <<>>)

SpecOk(st, spec) == [st |-> st, ok |-> TRUE, err |-> NoErr, spec |-> spec]
SpecFail(st, err) == [st |-> st, ok |-> FALSE, err |-> err, spec |-> <<>>]

\* module_imports: the import statement of every definition that is an object
RECURSIVE ModuleImportsLoop(_, _, _)

ModuleImport(st, defs, acc, io, cn) ==
    IF ~io.ok THEN ListFail(st, io.err)
    ELSE IF ~io.val THEN ModuleImportsLoop(st, Tail(defs), acc)
    ELSE IF ~cn.ok THEN ListFail(st, cn.err)
    ELSE ModuleImportsLoop(st, Tail(defs), Append(acc, ImportStatementOf(cn.str)))

ModuleImportsLoop(st, defs, acc) ==
    IF defs = <<>> THEN ListOk(st, acc)
    ELSE ModuleImport(st, defs, acc, IsObject(st.heap[Head(defs).val]),
                      Classname(st.heap[Head(defs).val]))

\* for obj in self.wrapped_definitions().values()
ModuleImportsOver(wd) ==
    IF ~wd.ok THEN wd ELSE ModuleImportsLoop(wd.st, wd.items, <<>>)

ModuleImports(st, n) == ModuleImportsOver(WrappedDefinitions(st, n))

\* modspec.update({schema.filename: schema.object_code() for schema in
\*                 self.wrapped_definitions().values() if schema.is_object})
RECURSIVE DefinitionsLoop(_, _, _)

\* schema.filename: schema.object_code()
DefinitionFile(defs, acc, cn, oc) ==
    IF ~oc.ok THEN SpecFail(oc.st, oc.err)
    ELSE DefinitionsLoop(oc.st, Tail(defs), DictSet(acc, Filename(cn.str), oc.art))

\* if schema.is_object
Definition(st, defs, acc, io, cn) ==
    IF ~io.ok THEN SpecFail(st, io.err)
    ELSE IF ~io.val THEN DefinitionsLoop(st, Tail(defs), acc)
    ELSE IF ~cn.ok THEN SpecFail(st, cn.err)
    ELSE DefinitionFile(defs, acc, cn, ObjectCode(st, Head(defs).val))

DefinitionsLoop(st, defs, acc) ==
    IF defs = <<>> THEN SpecOk(st, acc)
    ELSE Definition(st, defs, acc, IsObject(st.heap[Head(defs).val]),
                    Classname(st.heap[Head(defs).val]))

RECURSIVE UpdateAll(_, _)
UpdateAll(d, entries) ==
    IF entries = <<>> THEN d
    ELSE UpdateAll(DictSet(d, Head(entries).key, Head(entries).val), Tail(entries))

\* modspec.update(...) with the files ds of the definitions
SpecUpdated(modspec, ds) ==
    IF ~ds.ok THEN ds ELSE SpecOk(ds.st, UpdateAll(modspec, ds.spec))

\* for schema in self.wrapped_definitions().values()
SpecDefinitions(modspec, wd) ==
    IF ~wd.ok THEN SpecFail(wd.st, wd.err)
    ELSE SpecUpdated(modspec, DefinitionsLoop(wd.st, wd.items, <<>>))

\* modspec['__init__.py'] = '\n'.join([self.import_statement] + self.module_imports)
SpecInitFile(n, cn, modspec, mi) ==
    IF ~mi.ok THEN SpecFail(mi.st, mi.err)
    ELSE SpecDefinitions(DictSet(modspec, <<"__init__", ".py">>,
                                 Artifact("init",
                                          <<ImportStatementOf(cn.str)>> \o mi.items,
                                          <<>>, <<>>)),
                         WrappedDefinitions(mi.st, n))

\* modspec = {'jstraitlets.py': ..., 'baseobject.py': ..., self.filename: self.object_code()}
SpecRootFile(n, cn, oc) ==
    IF ~oc.ok THEN SpecFail(oc.st, oc.err)
    ELSE SpecInitFile(n, cn,
                      DictSet(DictSet(DictSet(<<>>,
                          <<"jstraitlets", ".py">>, SupportFile(<<"jstraitlets", ".py">>)),
                          <<"baseobject", ".py">>, SupportFile(<<"baseobject", ".py">>)),
                          Filename(cn.str), oc.art),
                      ModuleImports(oc.st, n))

\* self.filename, which needs the class name of the root
SpecNamed(st, n, cn) ==
    IF ~cn.ok THEN SpecFail(st, cn.err)
    ELSE SpecRootFile(n, cn, ObjectCode(st, n))

ModuleSpec(st, n) ==
    IF ~IsRoot(st.heap[n]) THEN SpecFail(st, Err("AssertionError", "", JNull))
    ELSE SpecNamed(st, n, Classname(st.heap[n]))

----------------------------------------------------------------------------
\* The process: the client holds root instances and the instances that
\* get_reference returned to it, and calls get_reference, trait_code and
\* module_spec on them.  heap and cache are the state the calls share:
\* cache is the class attribute JSONSchema._cached_references.

NoResult ==
    [op |-> "none", node |-> 0, ref |-> <<>>, usecache |-> FALSE,
     ok |-> TRUE, err |-> NoErr, ret |-> 0, code |-> NoCode, spec |-> <<>>]

\* JSONSchema(schema) for a loaded document
Root(d) == NewInstance(Ptr(d, <<>>), [some |-> FALSE, v |-> Ptr(d, <<>>)], 0, NoName)

EmptyCache == [r \in {} |-> 0]

\* one document is loaded in the process
Init ==
    /\ \E d \in DocIds : heap = <<Root(d)>>
    /\ cache = EmptyCache
    /\ held = {1}
    /\ last = NoResult
    /\ steps = 0

\* two documents are loaded in the same process
InitShared ==
    /\ \E d \in DocIds : \E e \in DocIds :
           /\ e = (d % Len(Documents)) + 1
           /\ heap = <<Root(d), Root(e)>>
    /\ cache = EmptyCache
    /\ held = {1, 2}
    /\ last = NoResult
    /\ steps = 0

State == [heap |-> heap, cache |-> cache]

CallGetReference(n, r, c) ==
    /\ steps < MaxSteps
    /\ \E res \in {GetReference(State, n, JStr(r), c)} :
           /\ heap' = res.st.heap
           /\ cache' = res.st.cache
           /\ held' = IF res.ok THEN held \cup {res.ret} ELSE held
           /\ last' = [NoResult EXCEPT !.op = "get_reference", !.node = n, !.ref = r,
                                       !.usecache = c, !.ok = res.ok, !.err = res.err,
                                       !.ret = res.ret]
    /\ steps' = steps + 1

CallTraitCode(n) ==
    /\ steps < MaxSteps
    /\ \E res \in {TraitCode(State, n, 1)} :
           /\ heap' = res.st.heap
           /\ cache' = res.st.cache
           /\ last' = [NoResult EXCEPT !.op = "trait_code", !.node = n, !.ok = res.ok,
                                       !.err = res.err, !.code = res.code]
    /\ held' = held
    /\ steps' = steps + 1

CallModuleSpec(n) ==
    /\ steps < MaxSteps
    /\ \E res \in {ModuleSpec(State, n)} :
           /\ heap' = res.st.heap
           /\ cache' = res.st.cache
           /\ last' = [NoResult EXCEPT !.op = "module_spec", !.node = n, !.ok = res.ok,
                                       !.err = res.err, !.spec = res.spec]
    /\ held' = held
    /\ steps' = steps + 1

Next ==
    \/ \E n \in held : \E r \in RefInputs : \E c \in BOOLEAN : CallGetReference(n, r, c)
    \/ \E n \in held : CallTraitCode(n)
    \/ \E n \in held : CallModuleSpec(n)

Spec == Init /\ [][Next]_vars

SpecShared == InitShared /\ [][Next]_vars

----------------------------------------------------------------------------
\* What the claims speak about

\* the instance the last call was made on, its raw schema and its document
LastNode == heap[last.node]
LastSchema == Val(LastNode.schema)
Called(op) == last.op = op

Range(f) == {f[i] : i \in DOMAIN f}

\* the pointer that walking the document of `node` along ref reaches, if any
WalkOf(node, ref) == WalkKeys(node.context, Tail(Split(ref)))

InvalidReference(ref) == Err("ValueError", "Unrecognized $ref format", JStr(ref))
UnresolvedReference(ref) == Err("ValueError", "$ref not present in the schema", JStr(ref))

----------------------------------------------------------------------------
\* C1: with caching enabled the cache only grows and an entry never changes:
\* every step keeps each cached ref bound to the same instance, unchanged, and
\* a successful caching get_reference(r) returns the instance cached for r.
C1_CacheStable ==
    [][ /\ \A r \in DOMAIN cache :
              /\ r \in DOMAIN cache'
              /\ cache'[r] = cache[r]
              /\ heap'[cache[r]] = heap[cache[r]]
        /\ (last'.op = "get_reference" /\ last'.usecache /\ last'.ok)
              => /\ last'.ref \in DOMAIN cache'
                 /\ cache'[last'.ref] = last'.ret ]_vars

\* a caching get_reference made on an instance returned that same, existing
\* instance: the ref was resolved before and the cache answered
C1_Witness ==
    /\ Called("get_reference") /\ last.usecache /\ last.ok
    /\ last.ret = last.node
    /\ cache[last.ref] = last.ret
    /\ steps >= 2

\* C6: get_reference fails with InvalidReference for a ref whose leading
\* segment is not "#", with UnresolvedReference for a ref whose path cannot be
\* walked in the document, and with nothing else.
C6_ResolveErrors ==
    Called("get_reference") =>
        /\ Split(last.ref)[1] # S("#")
              => ~last.ok /\ last.err = InvalidReference(last.ref)
        /\ (Split(last.ref)[1] = S("#") /\ ~WalkOf(LastNode, last.ref).ok)
              => ~last.ok /\ last.err = UnresolvedReference(last.ref)
        /\ ~last.ok => last.err \in {InvalidReference(last.ref),
                                     UnresolvedReference(last.ref)}

\* C9: a caching get_reference(r) on instance n returns an instance with n's
\* context that wraps the subtree found by walking n's own document along r.
C9_NoCrossDocument ==
    (Called("get_reference") /\ last.usecache /\ last.ok) =>
        /\ heap[last.ret].context = LastNode.context
        /\ WalkOf(LastNode, last.ref).ok
        /\ heap[last.ret].schema = WalkOf(LastNode, last.ref).ptr

----------------------------------------------------------------------------
\* Shapes of schema nodes and documents

CompositeKeys == {"not", "anyOf", "allOf", "oneOf"}
DispatchKeys == CompositeKeys \cup {"$ref", "enum"}

Carries(v, keys) == v.t = "obj" /\ \E k \in keys : HasKey(v, S(k))

\* the entries of the dict v[attr], none when v holds no such dict
Entries(v, attr) ==
    IF v.t = "obj" /\ HasKey(v, S(attr)) /\ Get(v, S(attr)).t = "obj"
    THEN Get(v, S(attr)).kv ELSE <<>>

\* the paths of the schema nodes of a document: the root, the definitions,
\* the properties and the array items, at any depth
RECURSIVE PathsUnder(_, _)
PathsUnder(v, path) ==
    {path}
    \cup UNION { UNION { PathsUnder(Entries(v, attr)[i][2],
                                    path \o <<S(attr), Entries(v, attr)[i][1]>>)
                         : i \in 1..Len(Entries(v, attr)) }
                 : attr \in {"properties", "definitions"} }
    \cup IF v.t = "obj" /\ HasKey(v, S("items"))
         THEN PathsUnder(Get(v, S("items")), Append(path, S("items")))
         ELSE {}

\* whether the node at pointer p is an object (is_object)
ObjectTyped(p) ==
    LET r == IsObject(NewInstance(p, [some |-> FALSE, v |-> p], 0, NoName))
    IN  r.ok /\ r.val

\* the path a "$ref" at node v leads to, as a set: empty when v has no ref
\* or the ref cannot be walked
RefTargets(doc, v) ==
    IF v.t = "obj" /\ HasKey(v, S("$ref")) /\ Get(v, S("$ref")).t = "str"
       /\ Split(Get(v, S("$ref")).s)[1] = S("#")
       /\ WalkKeys(doc, Tail(Split(Get(v, S("$ref")).s))).ok
    THEN {WalkKeys(doc, Tail(Split(Get(v, S("$ref")).s))).ptr.path}
    ELSE {}

\* the nodes of the document of pointer doc, with the targets of their refs
Vertices(doc) ==
    LET ps == PathsUnder(Val(doc), <<>>)
    IN  ps \cup UNION { RefTargets(doc, WalkVal(Val(doc), q)) : q \in ps }

\* v refers to w or holds w as a property, a definition or its items
Edge(doc, v, w) ==
    \/ w \in RefTargets(doc, WalkVal(Val(doc), v))
    \/ /\ Len(w) > Len(v)
       /\ SubSeq(w, 1, Len(v)) = v
       /\ w \in PathsUnder(WalkVal(Val(doc), v), v)
       /\ \/ Len(w) = Len(v) + 1 /\ w[Len(w)] = S("items")
          \/ Len(w) = Len(v) + 2

RECURSIVE ReachIn(_, _, _, _)
ReachIn(doc, among, from, k) ==
    IF k = 0 THEN from
    ELSE ReachIn(doc, among,
                 from \cup {w \in among : \E v \in from : Edge(doc, v, w)}, k - 1)

\* some cycle of the graph lies within the vertices `among`
HasCycleIn(doc, among) ==
    \E v \in among :
        v \in ReachIn(doc, among, {w \in among : Edge(doc, v, w)}, Cardinality(among))

\* every cycle of references passes through an object-typed node
CyclesPassObjects(doc) ==
    ~HasCycleIn(doc, {v \in Vertices(doc) : ~ObjectTyped([doc EXCEPT !.path = v])})

\* a type value that is a list of primitive names
PrimitiveList(ty) == ty.t = "list" /\ \A i \in 1..Len(ty.l) : IsSimpleType(ty.l[i])

\* the last call was trait_code on a mapping that carries none of the keys
\* the dispatch looks at before the type
TypeCase ==
    /\ Called("trait_code")
    /\ LastSchema.t = "obj"
    /\ ~Carries(LastSchema, DispatchKeys)

LastType == Attr(LastNode, "type").val

\* the last call was trait_code on a node with "$ref" and no "not" whose ref
\* is resolved: the cache holds the target
RefCase ==
    /\ Called("trait_code")
    /\ LastSchema.t = "obj"
    /\ HasKey(LastSchema, S("$ref"))
    /\ ~HasKey(LastSchema, S("not"))
    /\ Get(LastSchema, S("$ref")).t = "str"
    /\ Get(LastSchema, S("$ref")).s \in DOMAIN cache

LastRef == Get(LastSchema, S("$ref")).s
LastTarget == cache[LastRef]
LastSegment == Split(LastRef)[Len(Split(LastRef))]

\* the outcome of a trait_code evaluation, without the state it leaves
Outcome(r) == [ok |-> r.ok, err |-> r.err, code |-> r.code]

ObjectReference(name) == CodeCall(S("T.Instance"), <<CodeVar(name)>>)

\* a node that makes trait_code refuse: "not", or a composite keyword that
\* no "$ref" shadows
Refused(v) ==
    \/ Carries(v, {"not"})
    \/ Carries(v, {"anyOf", "allOf", "oneOf"}) /\ ~Carries(v, {"$ref"})

\* the definitions of the node at pointer p that are objects
ObjectDefinitions(p) ==
    LET defs == Entries(Val(p), "definitions")
    IN  { i \in 1..Len(defs) : ObjectTyped(Sub(Sub(p, S("definitions")), defs[i][1])) }

\* the definitions module_spec builds an artifact for: the objects, and of
\* two whose names agree in lower case the later one
BuiltDefinitions(p) ==
    LET defs == Entries(Val(p), "definitions")
    IN  { i \in ObjectDefinitions(p) :
            \A j \in (i + 1)..Len(defs) : Lower(defs[j][1]) # Lower(defs[i][1]) }

HasRefusedProperty(p) ==
    \/ \E i \in 1..Len(Entries(Val(p), "properties")) :
          Refused(Entries(Val(p), "properties")[i][2])
    \/ \E d \in BuiltDefinitions(p) :
          LET props == Entries(Entries(Val(p), "definitions")[d][2], "properties")
          IN  \E i \in 1..Len(props) : Refused(props[i][2])

\* the names a piece of emitted code refers to as classes
RECURSIVE ClassesIn(_)
ClassesIn(code) ==
    IF code.kind = "var" THEN {code.fn}
    ELSE UNION { ClassesIn(code.args[i]) : i \in 1..Len(code.args) }

----------------------------------------------------------------------------
C3_ArtifactCount ==
    (Called("module_spec") /\ last.ok)
    => Len(last.spec) = 4 + Cardinality(ObjectDefinitions(LastNode.schema))

\* C4 as stated: for a node with "$ref", no "not" and resolved target t,
\* trait_code is the object reference naming the last segment of the ref when
\* t is an object, and is t's own trait_code otherwise.
C4_RefDispatch ==
    (RefCase /\ IsObject(heap[LastTarget]).ok)
    => IF IsObject(heap[LastTarget]).val
       THEN last.ok /\ last.code = ObjectReference(LastSegment)
       ELSE Outcome(last) = Outcome(TraitCode(State, LastTarget, 1))

\* C4 as amended: the object reference names the last segment of the ref when
\* that segment is not empty; when it is empty trait_code fails with
\* NotSupported (an anonymous class has no name).
C4_RefDispatchNamed ==
    (RefCase /\ IsObject(heap[LastTarget]).ok)
    => IF IsObject(heap[LastTarget]).val
       THEN IF LastSegment # <<>>
            THEN last.ok /\ last.code = ObjectReference(LastSegment)
            ELSE ~last.ok /\ last.err.kind = "NotImplementedError"
       ELSE Outcome(last) = Outcome(TraitCode(State, LastTarget, 1))

C4_Witness ==
    /\ RefCase
    /\ IsObject(heap[LastTarget]).ok /\ IsObject(heap[LastTarget]).val
    /\ Carries(LastSchema, {"anyOf"})
    /\ last.ok /\ last.code = ObjectReference(S("A"))

\* C5: every class an artifact's field refers to is imported by the artifact.
C5_ClassesImported ==
    (Called("module_spec") /\ last.ok)
    => \A a \in 1..Len(last.spec) :
          \A f \in 1..Len(last.spec[a].val.fields) :
             \A c \in ClassesIn(last.spec[a].val.fields[f].code) :
                ImportStatementOf(c) \in Range(last.spec[a].val.imports)

\* C7: for a node whose type is a list of primitive names trait_code is the
\* union of one member per name, in order, each the trait_code of a node of
\* that single type.
C7_UnionOfPrimitives ==
    (TypeCase /\ PrimitiveList(LastType))
    => /\ last.ok
       /\ last.code.kind = "call" /\ last.code.fn = S("jst.JSONUnion")
       /\ Len(last.code.args) = 1 /\ last.code.args[1].kind = "list"
       /\ Len(last.code.args[1].args) = Len(LastType.l)
       /\ \A i \in 1..Len(LastType.l) :
             LET single == MakeChild(State, last.node,
                                     Fresh(Len(heap) + 1,
                                           JObj(<< <<S("type"), LastType.l[i]>> >>)),
                                     NoName)
             IN  /\ last.code.args[1].args[i] = TraitCode(single.st, single.ret, 1).code
                 /\ last.code.args[1].args[i] =
                        CodeCall(TraitletCls(LastType.l[i].s[1]), <<>>)

C7_Witness ==
    /\ TypeCase /\ PrimitiveList(LastType)
    /\ Len(LastType.l) = 3
    /\ last.ok

\* C8: for a node whose type is no primitive name, not "array", not "object"
\* and no list of primitive names, trait_code fails with UnrecognizedType
\* carrying the type value.
C8_UnrecognizedType ==
    (/\ TypeCase
     /\ ~IsSimpleType(LastType)
     /\ LastType \notin {JStr(S("array")), JStr(S("object"))}
     /\ ~PrimitiveList(LastType))
    => ~last.ok /\ last.err = Err("ValueError", "unrecognized type identifier", LastType)

\* C10: on a document in which every cycle of references passes through an
\* object, module_spec ends by returning or failing on its own: it never
\* runs into the recursion limit.
C10_Terminates ==
    (Called("module_spec") /\ IsRoot(LastNode) /\ CyclesPassObjects(LastNode.schema))
    => last.err.kind # "RecursionError"

\* module_spec returned for a document that has a cycle of references
C10_Witness ==
    /\ Called("module_spec") /\ IsRoot(LastNode)
    /\ CyclesPassObjects(LastNode.schema)
    /\ HasCycleIn(LastNode.schema, Vertices(LastNode.schema))
    /\ last.ok

====
